---- MODULE Spec2Model ----
(***************************************************************************)
(* Model of the DMO cloning scripts:                                       *)
(*   cloneNmappingDMO.py  clone a DMO and re-create its DLO mappings       *)
(*   cloneDMOs.py         clone a DMO into a fixed data space              *)
(*   updateDmoFields.py   add the missing fields of a source DMO to a      *)
(*                        target DMO                                       *)
(* Field names are sequences of one-character strings, so that the         *)
(* prefix/suffix handling of Python's str methods is computed, not assumed.*)
(***************************************************************************)
EXTENDS Integers, Sequences, FiniteSets, TLC

VARIABLES
    script,                       \* which entry point runs
    RUN_CLONE_DMO,                \* cloneNmappingDMO.py:30
    RUN_CREATE_MAPPING,           \* cloneNmappingDMO.py:31
    DRY_RUN,                      \* updateDmoFields.py:53
    num_tasks,                    \* len(dmo_df) / len(dmo_list)
    task,                         \* 1-based index of the row the loop is at
    pc,                           \* the remote call the loop is about to make
    dmo_definition,               \* source definition of the current task
    target_def,                   \* updateDmoFields: target definition
    system_target_fields_to_skip, \* cloneNmappingDMO.py:207,218
    dmo_succeeded,
    mapping_succeeded,
    original_mappings,
    pending,                      \* mapping payloads still to be POSTed
    all_successful,               \* cloneNmappingDMO.py:134
    fields_to_add,                \* updateDmoFields.py:270
    success_count,
    failure_count,
    outcomes,                     \* the tally, one entry per task counted
    calls,                        \* remote requests sent for the latest task
    arg,                          \* unit runs: argument of the function
    ret                           \* unit runs: its return value

ovars == <<script, RUN_CLONE_DMO, RUN_CREATE_MAPPING, DRY_RUN, num_tasks, task,
           pc, dmo_definition, target_def, system_target_fields_to_skip,
           dmo_succeeded, mapping_succeeded, original_mappings, pending,
           all_successful, fields_to_add, success_count, failure_count,
           outcomes, calls>>

vars == <<ovars, arg, ret>>

(***************************************************************************)
(* Python values and str methods                                           *)
(***************************************************************************)
None == <<"None">>

EmptyStr == << >>

SSOT == <<"s", "s", "o", "t", "_", "_">>

SUFFIX_C == <<"_", "_", "c">>

startswith(s, prefix) ==
    /\ Len(s) >= Len(prefix)
    /\ SubSeq(s, 1, Len(prefix)) = prefix

endswith(s, suffix) ==
    /\ Len(s) >= Len(suffix)
    /\ SubSeq(s, Len(s) - Len(suffix) + 1, Len(s)) = suffix

\* str.find: 1-based index of the first occurrence of old in s, 0 if none
find(s, old) ==
    LET hits == {i \in 1..(Len(s) - Len(old) + 1) : SubSeq(s, i, i + Len(old) - 1) = old}
    IN  IF hits = {} THEN 0 ELSE CHOOSE i \in hits : \A j \in hits : i <= j

\* str.replace(old, new, count): left to right, non-overlapping; count < 0 is "all"
RECURSIVE replace(_, _, _, _)
replace(s, old, new, count) ==
    IF count = 0 THEN s
    ELSE LET i == find(s, old)
         IN  IF i = 0 THEN s
             ELSE SubSeq(s, 1, i - 1) \o new
                  \o replace(SubSeq(s, i + Len(old), Len(s)), old, new, count - 1)

(***************************************************************************)
(* updateDmoFields.py: field transformation (Lenient filter)               *)
(***************************************************************************)
\* mutant: the suffix is stripped whether or not the prefix was
transform_name_both(original_api_name) ==
    LET a == IF startswith(original_api_name, SSOT)
             THEN replace(original_api_name, SSOT, EmptyStr, 1)
             ELSE original_api_name
    IN  IF endswith(a, SUFFIX_C) THEN SubSeq(a, 1, Len(a) - 3) ELSE a

transform_name(original_api_name) ==
    IF startswith(original_api_name, SSOT)
    THEN replace(original_api_name, SSOT, EmptyStr, 1)
    ELSE IF endswith(original_api_name, SUFFIX_C)
         THEN SubSeq(original_api_name, 1, Len(original_api_name) - 3)
         ELSE original_api_name

\* mutant: the Strict filter of the cloning scripts
lenient_skips_strict(source_field_def) ==
    source_field_def.creationType = "System"

lenient_skips(source_field_def) ==
    source_field_def.creationType = "System" /\ ~source_field_def.isPrimaryKey

transform_field_from_source(source_field_def) ==
    IF lenient_skips(source_field_def) THEN <<None, None>>
    ELSE LET transformed_name == transform_name(source_field_def.name)
         IN  IF transformed_name = EmptyStr THEN <<None, None>>
             ELSE <<transformed_name,
                    [name            |-> transformed_name,
                     label           |-> source_field_def.label,
                     description     |-> source_field_def.description,
                     isPrimaryKey    |-> source_field_def.isPrimaryKey,
                     isDynamicLookup |-> FALSE,
                     dataType        |-> source_field_def.type]>>

(***************************************************************************)
(* cloneDMOs.py / cloneNmappingDMO.py: creation payload (Strict filter)    *)
(***************************************************************************)
DLM == <<"_", "_", "d", "l", "m">>

NEW_DMO_PREFIX == <<"i", "u", "b", "_">>

NEW_DATA_SPACE_NAME == "IUBR"

\* mutant: the filter of updateDmoFields.py, which keeps primary keys
strict_skips_lenient(field) ==
    field.creationType = "System" /\ ~field.isPrimaryKey

strict_skips(field) ==
    field.creationType = "System"

new_field(field) ==
    [name            |-> replace(field.name, SUFFIX_C, EmptyStr, -1),
     label           |-> field.label,
     description     |-> field.description,
     isPrimaryKey    |-> field.isPrimaryKey,
     isDynamicLookup |-> FALSE,
     dataType        |-> field.type]

RECURSIVE post_payload_fields(_)
post_payload_fields(fields) ==
    IF fields = << >> THEN << >>
    ELSE IF strict_skips(Head(fields)) THEN post_payload_fields(Tail(fields))
         ELSE <<new_field(Head(fields))>> \o post_payload_fields(Tail(fields))

transform_payload_for_post(get_payload) ==
    [name          |-> NEW_DMO_PREFIX \o replace(get_payload.name, DLM, EmptyStr, -1),
     label         |-> get_payload.label,
     description   |-> get_payload.description,
     dataSpaceName |-> NEW_DATA_SPACE_NAME,
     category      |-> get_payload.category,
     fields        |-> post_payload_fields(get_payload.fields)]

RECURSIVE create_new_dmo_fields(_)
create_new_dmo_fields(fields) ==
    IF fields = << >> THEN << >>
    ELSE IF Head(fields).creationType = "System"
         THEN create_new_dmo_fields(Tail(fields))
         ELSE <<[name            |-> replace(Head(fields).name, SUFFIX_C, EmptyStr, -1),
                 label           |-> Head(fields).label,
                 description     |-> Head(fields).description,
                 isPrimaryKey    |-> Head(fields).isPrimaryKey,
                 isDynamicLookup |-> FALSE,
                 dataType        |-> Head(fields).type]>>
              \o create_new_dmo_fields(Tail(fields))

create_new_dmo_payload(get_payload, new_dmo_name_base, new_data_space) ==
    [name          |-> new_dmo_name_base,
     label         |-> get_payload.label,
     description   |-> get_payload.description,
     dataSpaceName |-> new_data_space,
     category      |-> get_payload.category,
     fields        |-> create_new_dmo_fields(get_payload.fields)]

(***************************************************************************)
(* updateDmoFields.py: the fields of the source missing from the target    *)
(***************************************************************************)
target_existing_field_names(target_fields) ==
    {target_fields[i].name : i \in 1..Len(target_fields)}

\* mutant: the fields of the target are not looked at
RECURSIVE new_fields_to_add_all(_, _)
new_fields_to_add_all(source_fields, existing) ==
    IF source_fields = << >> THEN << >>
    ELSE LET t == transform_field_from_source(Head(source_fields))
             rest == new_fields_to_add_all(Tail(source_fields), existing)
         IN  IF t[1] = None THEN rest ELSE <<t[2]>> \o rest

RECURSIVE new_fields_to_add(_, _)
new_fields_to_add(source_fields, existing) ==
    IF source_fields = << >> THEN << >>
    ELSE LET t == transform_field_from_source(Head(source_fields))
             rest == new_fields_to_add(Tail(source_fields), existing)
         IN  IF t[1] = None THEN rest
             ELSE IF t[1] \in existing THEN rest
                  ELSE <<t[2]>> \o rest

(***************************************************************************)
(* cloneNmappingDMO.py: consolidation of the raw mapping records           *)
(***************************************************************************)
NoMappings == [order |-> << >>, fields |-> << >>]

\* mutant: a later record of an entity replaces the earlier ones
consolidate_overwrite(acc, mapping) ==
    LET dlo_name == mapping.sourceEntityDeveloperName
    IN  IF dlo_name = "" THEN acc
        ELSE IF dlo_name \in DOMAIN acc.fields
             THEN [acc EXCEPT !.fields[dlo_name] = mapping.fieldMappings]
             ELSE [order  |-> Append(acc.order, dlo_name),
                   fields |-> acc.fields @@ (dlo_name :> mapping.fieldMappings)]

\* mutant: every record is queued as an entity of its own
consolidate_ungrouped(acc, mapping) ==
    LET dlo_name == mapping.sourceEntityDeveloperName
    IN  IF dlo_name = "" THEN acc
        ELSE [order  |-> Append(acc.order, dlo_name),
              fields |-> IF dlo_name \in DOMAIN acc.fields
                         THEN [acc.fields EXCEPT ![dlo_name] = @ \o mapping.fieldMappings]
                         ELSE acc.fields @@ (dlo_name :> mapping.fieldMappings)]

\* one pass of the grouping loop; a dict keeps its keys in insertion order
consolidate(acc, mapping) ==
    LET dlo_name == mapping.sourceEntityDeveloperName
    IN  IF dlo_name = "" THEN acc
        ELSE IF dlo_name \in DOMAIN acc.fields
             THEN [acc EXCEPT !.fields[dlo_name] = @ \o mapping.fieldMappings]
             ELSE [order  |-> Append(acc.order, dlo_name),
                   fields |-> acc.fields @@ (dlo_name :> mapping.fieldMappings)]

RECURSIVE consolidated_mappings(_)
consolidated_mappings(mappings) ==
    IF mappings = << >> THEN NoMappings
    ELSE consolidate(consolidated_mappings(SubSeq(mappings, 1, Len(mappings) - 1)),
                     mappings[Len(mappings)])

\* mutant: the exclusion set is ignored
keeps_field_unfiltered(f, skip) ==
    f.sourceFieldDeveloperName # EmptyStr

keeps_field(f, skip) ==
    /\ f.sourceFieldDeveloperName # EmptyStr
    /\ f.targetFieldDeveloperName \notin skip

RECURSIVE filtered_fields(_, _)
filtered_fields(all_fields, skip) ==
    IF all_fields = << >> THEN << >>
    ELSE IF keeps_field(Head(all_fields), skip)
         THEN <<[sourceFieldDeveloperName |-> Head(all_fields).sourceFieldDeveloperName,
                 targetFieldDeveloperName |-> Head(all_fields).targetFieldDeveloperName]>>
              \o filtered_fields(Tail(all_fields), skip)
         ELSE filtered_fields(Tail(all_fields), skip)

\* list(set): the elements once each, in an order the program does not choose
RECURSIVE list_of_set(_)
list_of_set(S) ==
    IF S = {} THEN << >>
    ELSE LET x == CHOOSE x \in S : TRUE IN <<x>> \o list_of_set(S \ {x})

\* mutant: no deduplication
unique_filtered_fields_dups(filtered) == filtered

unique_filtered_fields(filtered) ==
    list_of_set({filtered[i] : i \in 1..Len(filtered)})

\* mutant: an entity left without fields is posted all the same
posts_entity_always(unique) == TRUE

posts_entity(unique) == unique # << >>

RECURSIVE mapping_payloads(_, _, _, _)
mapping_payloads(order, fields, new_dmo_name_base, skip) ==
    IF order = << >> THEN << >>
    ELSE LET dlo_name == Head(order)
             unique   == unique_filtered_fields(filtered_fields(fields[dlo_name], skip))
             rest     == mapping_payloads(Tail(order), fields, new_dmo_name_base, skip)
         IN  IF ~posts_entity(unique) THEN rest
             ELSE <<[sourceEntityDeveloperName |-> dlo_name,
                     targetEntityDeveloperName |-> new_dmo_name_base \o DLM,
                     fieldMapping              |-> unique]>> \o rest

\* the payloads create_new_mappings POSTs, in the order it POSTs them
consolidated_payloads(mappings, new_dmo_name_base, skip) ==
    LET c == consolidated_mappings(mappings)
    IN  mapping_payloads(c.order, c.fields, new_dmo_name_base, skip)

(***************************************************************************)
(* Inputs                                                                  *)
(***************************************************************************)
MaxParts == 3

MaxFields == 2

MaxRecords == 2

Fragments == {SSOT, SUFFIX_C, <<"I", "d">>, <<"_">>, <<"c">>}

RECURSIVE Concats(_)
Concats(n) ==
    IF n = 0 THEN {EmptyStr}
    ELSE LET shorter == Concats(n - 1)
         IN  shorter \cup {a \o f : a \in shorter, f \in Fragments}

Names == Concats(MaxParts)

Fld(name, creationType, isPrimaryKey, type) ==
    [name |-> name, label |-> name, description |-> "", type |-> type,
     isPrimaryKey |-> isPrimaryKey, creationType |-> creationType]

UnitFields ==
    {Fld(n, ct, pk, "Text") : n \in Names, ct \in {"System", "Custom"}, pk \in BOOLEAN}

N_Id == <<"I", "d">>

N_Revenue == <<"R", "e", "v", "e", "n", "u", "e">>

N_Id_c == N_Id \o SUFFIX_C

N_ssot_Id_c == SSOT \o N_Id \o SUFFIX_C

N_Revenue_c == N_Revenue \o SUFFIX_C

N_A_cB_c == <<"A">> \o SUFFIX_C \o <<"B">> \o SUFFIX_C

N_System_c == <<"S", "y", "s", "t", "e", "m">> \o SUFFIX_C

F_Id == Fld(N_ssot_Id_c, "System", TRUE, "Text")

F_Revenue == Fld(N_Revenue_c, "Custom", FALSE, "Number")

PoolFields ==
    {F_Id, F_Revenue,
     Fld(N_ssot_Id_c, "Custom", FALSE, "Text"),
     Fld(N_System_c, "System", FALSE, "Text"),
     Fld(SUFFIX_C, "Custom", FALSE, "Text"),
     Fld(SSOT, "System", TRUE, "Text"),
     Fld(N_A_cB_c, "Custom", TRUE, "Number"),
     Fld(N_Revenue, "Custom", FALSE, "Number")}

SeqsUpTo(S, n) == UNION {[1..k -> S] : k \in 0..n}

Dmo(name, fields) ==
    [name |-> name, label |-> "label", description |-> "", category |-> "OTHER",
     fields |-> fields]

N_Account_dlm == <<"A", "c", "c">> \o DLM

N_Clone == <<"C", "l", "o", "n", "e">>

PoolTargets ==
    {Dmo(N_Clone \o DLM, fs) :
        fs \in {<< >>, <<Fld(N_Revenue, "Custom", FALSE, "Number")>>,
                <<Fld(N_Id_c, "Custom", TRUE, "Text")>>}}

PairAB == [sourceFieldDeveloperName |-> <<"A">>, targetFieldDeveloperName |-> <<"B">>]

PairCD == [sourceFieldDeveloperName |-> <<"C">>, targetFieldDeveloperName |-> <<"D">>]

PairCS == [sourceFieldDeveloperName |-> <<"C">>, targetFieldDeveloperName |-> N_System_c]

PairEB == [sourceFieldDeveloperName |-> EmptyStr, targetFieldDeveloperName |-> <<"B">>]

PoolFieldMappings ==
    {<< >>, <<PairAB>>, <<PairAB, PairAB>>, <<PairAB, PairCS>>, <<PairCS, PairEB>>,
     <<PairCD, PairAB>>}

PoolRecords ==
    {[sourceEntityDeveloperName |-> e, fieldMappings |-> fm] :
        e \in {"", "Account_DLO", "Contact_DLO"}, fm \in PoolFieldMappings}

PoolSkips == {{}, {N_System_c}}

(***************************************************************************)
(* Unit runs: one function applied to one argument                         *)
(***************************************************************************)
NoReturn == [fn |-> "none", value |-> None]

OrchIdle ==
    /\ script = "none"
    /\ RUN_CLONE_DMO = FALSE
    /\ RUN_CREATE_MAPPING = FALSE
    /\ DRY_RUN = FALSE
    /\ num_tasks = 0
    /\ task = 0
    /\ pc = "none"
    /\ dmo_definition = None
    /\ target_def = None
    /\ system_target_fields_to_skip = {}
    /\ dmo_succeeded = FALSE
    /\ mapping_succeeded = FALSE
    /\ original_mappings = None
    /\ pending = << >>
    /\ all_successful = TRUE
    /\ fields_to_add = << >>
    /\ success_count = 0
    /\ failure_count = 0
    /\ outcomes = << >>
    /\ calls = << >>

InitField ==
    /\ OrchIdle
    /\ arg \in UnitFields
    /\ ret = NoReturn

TransformFieldFromSource ==
    /\ ret.fn = "none"
    /\ ret' = [fn |-> "transform_field_from_source",
               value |-> transform_field_from_source(arg)]
    /\ UNCHANGED <<ovars, arg>>

SpecField == InitField /\ [][TransformFieldFromSource]_vars

InitPayload ==
    /\ OrchIdle
    /\ arg \in [source : {Dmo(N_Account_dlm, fs) : fs \in SeqsUpTo(PoolFields, MaxFields)},
                target : PoolTargets,
                new_dmo_name_base : {N_Clone},
                new_data_space : {"TargetSpace"}]
    /\ ret = NoReturn

TransformPayloadForPost ==
    /\ ret.fn = "none"
    /\ ret' = [fn |-> "transform_payload_for_post",
               value |-> transform_payload_for_post(arg.source)]
    /\ UNCHANGED <<ovars, arg>>

CreateNewDmoPayload ==
    /\ ret.fn = "none"
    /\ ret' = [fn |-> "create_new_dmo",
               value |-> create_new_dmo_payload(arg.source, arg.new_dmo_name_base,
                                                arg.new_data_space)]
    /\ UNCHANGED <<ovars, arg>>

NewFieldsToAdd ==
    /\ ret.fn = "none"
    /\ ret' = [fn |-> "fields_to_add",
               value |-> new_fields_to_add(arg.source.fields,
                             target_existing_field_names(arg.target.fields))]
    /\ UNCHANGED <<ovars, arg>>

NextPayload ==
    \/ TransformPayloadForPost
    \/ CreateNewDmoPayload
    \/ NewFieldsToAdd

SpecPayload == InitPayload /\ [][NextPayload]_vars

InitConsolidate ==
    /\ OrchIdle
    /\ arg \in [original_mappings : SeqsUpTo(PoolRecords, MaxRecords),
                new_dmo_name_base : {N_Clone},
                skip : PoolSkips]
    /\ ret = [fn |-> "none", value |-> << >>, prev |-> << >>]

CreateNewMappingsPayloads ==
    /\ ret.fn = "none"
    /\ ret' = [fn |-> "create_new_mappings",
               value |-> consolidated_payloads(arg.original_mappings,
                             arg.new_dmo_name_base, arg.skip),
               prev |-> << >>]
    /\ UNCHANGED <<ovars, arg>>

\* the same input with one of its records received a second time
RefetchDuplicated ==
    /\ ret.fn = "create_new_mappings"
    /\ \E i \in 1..Len(arg.original_mappings) :
         /\ arg' = [arg EXCEPT !.original_mappings = Append(@, @[i])]
         /\ ret' = [fn |-> "create_new_mappings_again",
                    value |-> consolidated_payloads(arg'.original_mappings,
                                  arg.new_dmo_name_base, arg.skip),
                    prev |-> ret.value]
    /\ UNCHANGED ovars

NextConsolidate ==
    \/ CreateNewMappingsPayloads
    \/ RefetchDuplicated

SpecConsolidate == InitConsolidate /\ [][NextConsolidate]_vars

(***************************************************************************)
(* The three batch loops.  Init is the state after authentication and the  *)
(* reading of the task list succeeded.  Every remote call ends in one of   *)
(* three ways: a 2xx response, requests.exceptions.HTTPError from           *)
(* raise_for_status(), or an exception of the transport (Timeout,          *)
(* ConnectionError), which is no HTTPError.                                *)
(***************************************************************************)
MaxTasks == 2

Results == {"ok", "HTTPError", "ConnectionError"}

RemoteDefinitions ==
    {Dmo(N_Account_dlm, <<F_Id, F_Revenue>>),
     Dmo(N_Account_dlm, <<Fld(N_System_c, "System", FALSE, "Text"),
                          Fld(N_Revenue, "Custom", FALSE, "Number")>>)}

Rec(e, fm) == [sourceEntityDeveloperName |-> e, fieldMappings |-> fm]

RemoteMappings ==
    {<< >>,
     <<Rec("Account_DLO", <<PairAB>>), Rec("Account_DLO", <<PairAB, PairCS>>)>>,
     <<Rec("Account_DLO", <<PairCD, PairAB>>), Rec("Contact_DLO", <<PairAB>>)>>,
     <<Rec("Account_DLO", <<PairCS, PairEB>>)>>,
     <<Rec("Account_DLO", <<PairCS>>), Rec("Contact_DLO", <<PairCS, PairCD>>)>>}

\* the row of the task list the loop is at
Row ==
    [SourceDmoName |-> N_Account_dlm, SourceDataSpace |-> "SourceSpace",
     TargetDmoName |-> N_Clone \o DLM, TargetDataSpace |-> "TargetSpace"]

new_dmo_name_base == replace(Row.TargetDmoName, DLM, EmptyStr, -1)

Call(op, target, result, payload) ==
    [task |-> task, op |-> op, target |-> target, result |-> result,
     payload |-> payload]

\* the requests sent so far for the task the loop is at, and one more
Log(call) == SelectSeq(calls, LAMBDA c : c.task = task) \o <<call>>

\* mutant: the set of the task before is not emptied
system_fields_carried(definition) ==
    system_target_fields_to_skip \cup
    {definition.fields[i].name :
        i \in {j \in 1..Len(definition.fields) :
                  definition.fields[j].creationType = "System"}}

system_fields(definition) ==
    {definition.fields[i].name :
        i \in {j \in 1..Len(definition.fields) :
                  definition.fields[j].creationType = "System"}}

\* mutant: the result of the mapping phase is not looked at
process_ok_ignores_mapping(dmo_ok, mapping_ok) ==
    ~RUN_CLONE_DMO \/ dmo_ok

process_ok(dmo_ok, mapping_ok) ==
    (~RUN_CLONE_DMO \/ dmo_ok) /\ (~RUN_CREATE_MAPPING \/ mapping_ok)

config == <<script, RUN_CLONE_DMO, RUN_CREATE_MAPPING, DRY_RUN, num_tasks, arg, ret>>

Init ==
    /\ script \in {"cloneNmappingDMO", "cloneDMOs", "updateDmoFields"}
    /\ RUN_CLONE_DMO \in (IF script = "cloneNmappingDMO" THEN BOOLEAN ELSE {TRUE})
    /\ RUN_CREATE_MAPPING \in (IF script = "cloneNmappingDMO" THEN BOOLEAN ELSE {FALSE})
    /\ DRY_RUN \in (IF script = "updateDmoFields" THEN BOOLEAN ELSE {FALSE})
    /\ num_tasks \in 0..MaxTasks
    /\ task = 1
    /\ pc = "loop"
    /\ dmo_definition = None
    /\ target_def = None
    /\ system_target_fields_to_skip = {}
    /\ dmo_succeeded = FALSE
    /\ mapping_succeeded = FALSE
    /\ original_mappings = None
    /\ pending = << >>
    /\ all_successful = TRUE
    /\ fields_to_add = << >>
    /\ success_count = 0
    /\ failure_count = 0
    /\ outcomes = << >>
    /\ calls = << >>
    /\ arg = None
    /\ ret = NoReturn

\* the task is counted and the loop goes to the next row
Tally(ok) ==
    /\ success_count' = IF ok THEN success_count + 1 ELSE success_count
    /\ failure_count' = IF ok THEN failure_count ELSE failure_count + 1
    /\ outcomes' = Append(outcomes, IF ok THEN "Succeeded" ELSE "Failed")
    /\ task' = task + 1
    /\ pc' = "loop"

\* the task goes on with its next remote call
Goto(next) ==
    /\ pc' = next
    /\ UNCHANGED <<task, success_count, failure_count, outcomes>>

\* an exception no handler catches leaves main()
Raised == Goto("raised")

\* cloneNmappingDMO.py: from the mapping phase to the tally
MapAfterDmo(dmo_ok) ==
    IF dmo_ok /\ RUN_CREATE_MAPPING
    THEN /\ Goto("get_dmo_mappings")
         /\ mapping_succeeded' = FALSE
    ELSE /\ mapping_succeeded' = ~RUN_CREATE_MAPPING
         /\ Tally(process_ok(dmo_ok, ~RUN_CREATE_MAPPING))

MapGetDmoDefinition ==
    /\ script = "cloneNmappingDMO"
    /\ pc = "loop"
    /\ task <= num_tasks
    /\ \E result \in Results :
         /\ calls' = Log(Call("fetchDefinition", "source", result, None))
         /\ \/ /\ result = "ConnectionError"
               /\ Raised
               /\ dmo_succeeded' = FALSE
               /\ mapping_succeeded' = FALSE
               /\ system_target_fields_to_skip' = {}
               /\ UNCHANGED dmo_definition
            \/ /\ result = "HTTPError"
               /\ dmo_definition' = None
               /\ dmo_succeeded' = FALSE
               /\ mapping_succeeded' = FALSE
               /\ system_target_fields_to_skip' = {}
               /\ Tally(FALSE)
            \/ /\ result = "ok"
               /\ \E response \in RemoteDefinitions :
                    /\ dmo_definition' = response
                    /\ system_target_fields_to_skip' = system_fields(response)
               /\ IF RUN_CLONE_DMO
                  THEN /\ Goto("create_new_dmo")
                       /\ dmo_succeeded' = FALSE
                       /\ mapping_succeeded' = FALSE
                  ELSE /\ dmo_succeeded' = TRUE
                       /\ MapAfterDmo(TRUE)
    /\ UNCHANGED <<config, target_def, original_mappings, pending, all_successful,
                   fields_to_add>>

MapCreateNewDmo ==
    /\ script = "cloneNmappingDMO"
    /\ pc = "create_new_dmo"
    /\ \E result \in Results :
         /\ calls' = Log(Call("createDefinition", "", result,
                        create_new_dmo_payload(dmo_definition, new_dmo_name_base,
                                               Row.TargetDataSpace)))
         /\ \/ /\ result = "ConnectionError"
               /\ Raised
               /\ UNCHANGED <<dmo_succeeded, mapping_succeeded>>
            \/ /\ result # "ConnectionError"
               /\ dmo_succeeded' = (result = "ok")
               /\ MapAfterDmo(result = "ok")
    /\ UNCHANGED <<config, dmo_definition, target_def, system_target_fields_to_skip,
                   original_mappings, pending, all_successful, fields_to_add>>

MapGetDmoMappings ==
    /\ script = "cloneNmappingDMO"
    /\ pc = "get_dmo_mappings"
    /\ \E result \in Results :
         /\ calls' = Log(Call("fetchMappings", "", result, None))
         /\ \/ /\ result = "ConnectionError"
               /\ Raised
               /\ UNCHANGED <<original_mappings, mapping_succeeded, pending,
                              all_successful>>
            \/ /\ result = "HTTPError"
               /\ original_mappings' = None
               /\ mapping_succeeded' = FALSE
               /\ Tally(process_ok(dmo_succeeded, FALSE))
               /\ UNCHANGED <<pending, all_successful>>
            \/ /\ result = "ok"
               /\ \E response \in RemoteMappings :
                    /\ original_mappings' = response
                    /\ IF response = << >>
                       THEN /\ mapping_succeeded' = TRUE
                            /\ Tally(process_ok(dmo_succeeded, TRUE))
                            /\ UNCHANGED <<pending, all_successful>>
                       ELSE /\ pending' = consolidated_payloads(response,
                                              new_dmo_name_base,
                                              system_target_fields_to_skip)
                            /\ all_successful' = TRUE
                            /\ IF pending' = << >>
                               THEN /\ mapping_succeeded' = TRUE
                                    /\ Tally(process_ok(dmo_succeeded, TRUE))
                               ELSE /\ Goto("create_new_mappings")
                                    /\ UNCHANGED mapping_succeeded
    /\ UNCHANGED <<config, dmo_definition, target_def, system_target_fields_to_skip,
                   dmo_succeeded, fields_to_add>>

\* one pass of the POST loop of create_new_mappings
MapPostMapping ==
    /\ script = "cloneNmappingDMO"
    /\ pc = "create_new_mappings"
    /\ \E result \in Results :
         /\ calls' = Log(Call("createMapping",
                        Head(pending).sourceEntityDeveloperName, result, Head(pending)))
         /\ \/ /\ result = "ConnectionError"
               /\ Raised
               /\ UNCHANGED <<pending, all_successful, mapping_succeeded>>
            \/ /\ result # "ConnectionError"
               /\ all_successful' = (all_successful /\ result = "ok")
               /\ pending' = Tail(pending)
               /\ IF pending' = << >>
                  THEN /\ mapping_succeeded' = all_successful'
                       /\ Tally(process_ok(dmo_succeeded, all_successful'))
                  ELSE /\ Goto("create_new_mappings")
                       /\ UNCHANGED mapping_succeeded
    /\ UNCHANGED <<config, dmo_definition, target_def, system_target_fields_to_skip,
                   dmo_succeeded, original_mappings, fields_to_add>>

CloneGetDmoDefinition ==
    /\ script = "cloneDMOs"
    /\ pc = "loop"
    /\ task <= num_tasks
    /\ \E result \in Results :
         /\ calls' = Log(Call("fetchDefinition", "source", result, None))
         /\ \/ /\ result = "ConnectionError"
               /\ Raised
               /\ UNCHANGED dmo_definition
            \/ /\ result = "HTTPError"
               /\ dmo_definition' = None
               /\ Tally(FALSE)
            \/ /\ result = "ok"
               /\ dmo_definition' \in RemoteDefinitions
               /\ Goto("create_new_dmo")
    /\ UNCHANGED <<config, target_def, system_target_fields_to_skip, dmo_succeeded,
                   mapping_succeeded, original_mappings, pending, all_successful,
                   fields_to_add>>

CloneCreateNewDmo ==
    /\ script = "cloneDMOs"
    /\ pc = "create_new_dmo"
    /\ \E result \in Results :
         /\ calls' = Log(Call("createDefinition", "", result,
                                        transform_payload_for_post(dmo_definition)))
         /\ \/ /\ result = "ConnectionError"
               /\ Raised
            \/ /\ result # "ConnectionError"
               /\ Tally(result = "ok")
    /\ UNCHANGED <<config, dmo_definition, target_def, system_target_fields_to_skip,
                   dmo_succeeded, mapping_succeeded, original_mappings, pending,
                   all_successful, fields_to_add>>

UpdateGetSourceDefinition ==
    /\ script = "updateDmoFields"
    /\ pc = "loop"
    /\ task <= num_tasks
    /\ \E result \in Results :
         /\ calls' = Log(Call("fetchDefinition", "source", result, None))
         /\ \/ /\ result = "ConnectionError"
               /\ Raised
               /\ UNCHANGED dmo_definition
            \/ /\ result = "HTTPError"
               /\ dmo_definition' = None
               /\ Tally(FALSE)
            \/ /\ result = "ok"
               /\ dmo_definition' \in RemoteDefinitions
               /\ Goto("get_target_definition")
    /\ UNCHANGED <<config, target_def, system_target_fields_to_skip, dmo_succeeded,
                   mapping_succeeded, original_mappings, pending, all_successful,
                   fields_to_add>>

\* mutant: the PATCH is sent in a dry run too
sends_patch_in_dry_run(to_add) == to_add # << >>

sends_patch(to_add) == to_add # << >> /\ ~DRY_RUN

UpdateGetTargetDefinition ==
    /\ script = "updateDmoFields"
    /\ pc = "get_target_definition"
    /\ \E result \in Results :
         /\ calls' = Log(Call("fetchDefinition", "target", result, None))
         /\ \/ /\ result = "ConnectionError"
               /\ Raised
               /\ UNCHANGED <<target_def, fields_to_add>>
            \/ /\ result = "HTTPError"
               /\ target_def' = None
               /\ Tally(FALSE)
               /\ UNCHANGED fields_to_add
            \/ /\ result = "ok"
               /\ target_def' \in PoolTargets
               /\ fields_to_add' =
                     new_fields_to_add(dmo_definition.fields,
                         target_existing_field_names(target_def'.fields))
               /\ IF sends_patch(fields_to_add')
                  THEN Goto("update_dmo_fields")
                  ELSE Tally(TRUE)
    /\ UNCHANGED <<config, dmo_definition, system_target_fields_to_skip, dmo_succeeded,
                   mapping_succeeded, original_mappings, pending, all_successful>>

UpdateDmoFields ==
    /\ script = "updateDmoFields"
    /\ pc = "update_dmo_fields"
    /\ \E result \in Results :
         /\ calls' = Log(Call("patchDefinition", "", result,
                                        [fields |-> fields_to_add]))
         /\ \/ /\ result = "ConnectionError"
               /\ Raised
            \/ /\ result # "ConnectionError"
               /\ Tally(result = "ok")
    /\ UNCHANGED <<config, dmo_definition, target_def, system_target_fields_to_skip,
                   dmo_succeeded, mapping_succeeded, original_mappings, pending,
                   all_successful, fields_to_add>>

\* the loop is over: the final summary is printed
Summary ==
    /\ pc = "loop"
    /\ task > num_tasks
    /\ pc' = "done"
    /\ UNCHANGED <<config, task, dmo_definition, target_def,
                   system_target_fields_to_skip, dmo_succeeded, mapping_succeeded,
                   original_mappings, pending, all_successful, fields_to_add,
                   success_count, failure_count, outcomes, calls>>

Next ==
    \/ MapGetDmoDefinition
    \/ MapCreateNewDmo
    \/ MapGetDmoMappings
    \/ MapPostMapping
    \/ CloneGetDmoDefinition
    \/ CloneCreateNewDmo
    \/ UpdateGetSourceDefinition
    \/ UpdateGetTargetDefinition
    \/ UpdateDmoFields
    \/ Summary

Spec == Init /\ [][Next]_vars

(***************************************************************************)
(* Properties of the consolidation                                         *)
(***************************************************************************)
Range(f) == {f[i] : i \in DOMAIN f}

EntitiesOf(payloads) == {p.sourceEntityDeveloperName : p \in Range(payloads)}

PairsOf(payloads, e) ==
    UNION {Range(p.fieldMapping) :
              p \in {q \in Range(payloads) : q.sourceEntityDeveloperName = e}}

Consolidated == ret.fn \in {"create_new_mappings", "create_new_mappings_again"}

\* C5: the payloads of one consolidation name each source entity at most once,
\* hold no pair twice, hold no pair whose target field is excluded, and none of
\* them has an empty fieldMapping.
C5_PayloadsDeduplicatedAndFiltered ==
    Consolidated =>
        /\ \A k, l \in 1..Len(ret.value) :
             k # l => ret.value[k].sourceEntityDeveloperName
                      # ret.value[l].sourceEntityDeveloperName
        /\ \A k \in 1..Len(ret.value) :
             LET fm == ret.value[k].fieldMapping
             IN  /\ fm # << >>
                 /\ \A i, j \in 1..Len(fm) : i # j => fm[i] # fm[j]
                 /\ \A i \in 1..Len(fm) : fm[i].targetFieldDeveloperName \notin arg.skip

\* an input with a repeated pair, an excluded pair, an entity left with nothing,
\* and still something to post
C5_Witness ==
    /\ ret.fn = "create_new_mappings"
    /\ arg.skip = {N_System_c}
    /\ Len(arg.original_mappings) = 2
    /\ arg.original_mappings[1] =
          [sourceEntityDeveloperName |-> "Account_DLO",
           fieldMappings |-> <<PairAB, PairAB>>]
    /\ arg.original_mappings[2] =
          [sourceEntityDeveloperName |-> "Contact_DLO",
           fieldMappings |-> <<PairCS, PairEB>>]
    /\ Len(ret.value) = 1
    /\ ret.value[1].fieldMapping = <<PairAB>>

\* C6: receiving one record of the input a second time changes neither the set
\* of source entities posted nor, for any entity, the set of pairs posted.
C6_IdempotentUnderDuplication ==
    ret.fn = "create_new_mappings_again" =>
        /\ EntitiesOf(ret.value) = EntitiesOf(ret.prev)
        /\ \A e \in EntitiesOf(ret.prev) : PairsOf(ret.value, e) = PairsOf(ret.prev, e)

\* the first of two different records of one entity is the one received again
C6_Witness ==
    /\ ret.fn = "create_new_mappings_again"
    /\ Len(arg.original_mappings) = 3
    /\ arg.original_mappings[1] = arg.original_mappings[3]
    /\ arg.original_mappings[1].sourceEntityDeveloperName = "Account_DLO"
    /\ arg.original_mappings[2].sourceEntityDeveloperName = "Account_DLO"
    /\ arg.original_mappings[1].fieldMappings = <<PairAB>>
    /\ arg.original_mappings[2].fieldMappings = <<PairCD, PairAB>>
    /\ PairsOf(ret.value, "Account_DLO") = {PairAB, PairCD}

(***************************************************************************)
(* Properties of the field transformations                                 *)
(***************************************************************************)
\* what the field-name rule asks of the result r for the name f
NameRule(f, r) ==
    IF startswith(f, SSOT) THEN SSOT \o r = f
    ELSE IF endswith(f, SUFFIX_C) THEN r \o SUFFIX_C = f
         ELSE r = f

Transformed == ret.fn = "transform_field_from_source"

\* C7: the name given to a field that is kept obeys the rule (one leading
\* 'ssot__' removed and nothing else; otherwise the final '__c' removed;
\* otherwise unchanged), and a field is dropped as unnamed only when the rule
\* leaves nothing of its name.
C7_FieldNameTransform ==
    Transformed /\ ~(arg.creationType = "System" /\ ~arg.isPrimaryKey) =>
        IF ret.value[1] = None
        THEN NameRule(arg.name, EmptyStr)
        ELSE /\ NameRule(arg.name, ret.value[1])
             /\ ret.value[2].name = ret.value[1]

\* a name with both markers: only the leading one goes
C7_Witness ==
    /\ Transformed
    /\ arg.name = N_ssot_Id_c
    /\ ret.value[1] = N_Id_c

\* C9 as claimed: a System field is emitted exactly when it is a primary key.
C9_Original ==
    Transformed /\ arg.creationType = "System" =>
        (ret.value[1] # None <=> arg.isPrimaryKey)

\* C9, amended: a System field is emitted exactly when it is a primary key and
\* its name is none of '', 'ssot__', '__c' (the names the rename empties).
C9_LenientSystemFields ==
    Transformed /\ arg.creationType = "System" =>
        (ret.value[1] # None <=>
            arg.isPrimaryKey /\ arg.name \notin {EmptyStr, SSOT, SUFFIX_C})

C9_Witness ==
    /\ Transformed
    /\ arg.creationType = "System"
    /\ arg.isPrimaryKey
    /\ arg.name = N_ssot_Id_c
    /\ ret.value[1] # None
    /\ ret.value[2].isPrimaryKey

\* the k-th field of a definition that is not a System field
KeptField(fields, k) ==
    LET kept == {i \in 1..Len(fields) : fields[i].creationType # "System"}
    IN  fields[CHOOSE i \in kept : Cardinality({j \in kept : j < i}) = k - 1]

\* C8: the fields of a Strict creation payload are the fields of the source
\* that are not System fields, one for one and in order; no System field is
\* among them, primary key or not.
C8_StrictExcludesSystem ==
    ret.fn \in {"transform_payload_for_post", "create_new_dmo"} =>
        LET src == arg.source.fields
            out == ret.value.fields
        IN  /\ Len(out) = Cardinality({i \in 1..Len(src) : src[i].creationType # "System"})
            /\ \A k \in 1..Len(out) :
                 /\ out[k].label = KeptField(src, k).label
                 /\ out[k].isPrimaryKey = KeptField(src, k).isPrimaryKey
                 /\ out[k].dataType = KeptField(src, k).type

\* a System primary key followed by a Custom field: only the second is sent
C8_Witness ==
    /\ ret.fn = "transform_payload_for_post"
    /\ arg.source.fields = <<F_Id, F_Revenue>>
    /\ Len(ret.value.fields) = 1
    /\ ret.value.fields[1].label = F_Revenue.label

Scenario10 ==
    /\ ret.fn = "fields_to_add"
    /\ arg.source.fields = <<F_Id, F_Revenue>>
    /\ arg.target.fields = << >>

\* C10 as claimed: the two fields are named 'Id' and 'Revenue'.
C10_Original ==
    Scenario10 =>
        /\ Len(ret.value) = 2
        /\ ret.value[1].name = N_Id
        /\ ret.value[1].isPrimaryKey
        /\ ret.value[2].name = N_Revenue

\* C10, amended: the two fields are named 'Id__c' (primary key) and 'Revenue',
\* in this order.
C10_LenientScenario ==
    Scenario10 =>
        /\ Len(ret.value) = 2
        /\ ret.value[1].name = N_Id_c
        /\ ret.value[1].isPrimaryKey
        /\ ret.value[2].name = N_Revenue

C10_Witness ==
    /\ Scenario10
    /\ Len(ret.value) = 2

(***************************************************************************)
(* Properties of the batch loops                                           *)
(***************************************************************************)
Stopped == pc \in {"done", "raised"}

CallsOf(op) == {i \in 1..Len(calls) : calls[i].op = op}

Failures == Cardinality({k \in 1..Len(outcomes) : outcomes[k] = "Failed"})

\* C1 as claimed: whatever way a remote call fails, the loop counts every task
\* and reaches the summary with succeeded + failed = number of tasks, and the
\* task of a failed call is counted Failed.
C1_BatchSurvivesEveryFailure ==
    /\ Stopped => pc = "done" /\ success_count + failure_count = num_tasks
    /\ \A i \in 1..Len(calls) :
         calls[i].result # "ok" /\ pc \in {"loop", "done", "raised"} =>
            /\ Len(outcomes) >= calls[i].task
            /\ outcomes[calls[i].task] = "Failed"

\* C2 as claimed: a task whose source-definition fetch fails is counted Failed
\* once, no other request is sent for it, and the loop goes on to the next task.
C2_FailedFetchSkipsTask ==
    calls # << >> /\ calls[1].result # "ok" =>
        /\ Len(calls) = 1
        /\ Len(outcomes) = task - 1
        /\ Len(outcomes) >= calls[1].task
        /\ outcomes[calls[1].task] = "Failed"
        /\ failure_count = Failures
        /\ pc \in {"loop", "done"}

\* the outcome the claim gives a task of the clone-and-map loop
Expected3 ==
    IF /\ RUN_CLONE_DMO => \E i \in CallsOf("createDefinition") : calls[i].result = "ok"
       /\ RUN_CREATE_MAPPING =>
            /\ \E i \in CallsOf("fetchMappings") : calls[i].result = "ok"
            /\ \A i \in CallsOf("createMapping") : calls[i].result = "ok"
    THEN "Succeeded" ELSE "Failed"

\* C3 as claimed: a task of the clone-and-map loop whose source definition was
\* fetched ends Succeeded if every enabled phase succeeded and Failed otherwise,
\* whatever the outcomes of the remote calls.
C3_TaskOutcome ==
    /\ script = "cloneNmappingDMO"
    /\ calls # << >>
    /\ calls[1].result = "ok"
    /\ pc \in {"loop", "done", "raised"}
    => /\ Len(outcomes) >= calls[1].task
       /\ outcomes[calls[1].task] = Expected3

\* C4: among the requests of one task no two are the same request: one
\* fetchDefinition per object, one createDefinition, one fetchMappings, one
\* patchDefinition, and one createMapping per source entity.
C4_NoRetry ==
    \A i, j \in 1..Len(calls) :
        i # j /\ calls[i].task = calls[j].task /\ calls[i].op = calls[j].op
            => calls[i].target # calls[j].target

\* two source entities, the first createMapping refused: one request each
C4_Witness ==
    /\ script = "cloneNmappingDMO"
    /\ Len(calls) = 5
    /\ calls[3].op = "fetchMappings"
    /\ calls[4].op = "createMapping"
    /\ calls[4].result = "HTTPError"
    /\ calls[5].op = "createMapping"
    /\ calls[5].result = "ok"
    /\ calls[4].target # calls[5].target
    /\ outcomes = <<"Failed">>

(***************************************************************************)
(* Properties of the phases of one task                                    *)
(***************************************************************************)
\* the task the request log is about, and whether it has been counted
LogTask == calls[1].task

Counted == Len(outcomes) >= LogTask

Answered(op, target, result) ==
    \E i \in CallsOf(op) : calls[i].target = target /\ calls[i].result = result

\* the pairs of the fetched records of entity e that are to be mapped
WantedPairs(e) ==
    {pr \in UNION {Range(original_mappings[k].fieldMappings) :
                      k \in {n \in 1..Len(original_mappings) :
                                original_mappings[n].sourceEntityDeveloperName = e}} :
        /\ pr.sourceFieldDeveloperName # EmptyStr
        /\ pr.targetFieldDeveloperName \notin system_target_fields_to_skip}

FetchedEntities ==
    {original_mappings[k].sourceEntityDeveloperName : k \in 1..Len(original_mappings)}
    \ {""}

\* C11: in the clone-and-map loop, when fetchMappings answers with no record, or
\* with records none of whose pairs is to be mapped, no createMapping is sent and
\* the task is counted Succeeded; and a counted task that sent fetchMappings, no
\* createMapping, and is Failed, had an HTTP error from fetchMappings.
C11_NothingToMapIsSuccess ==
    script = "cloneNmappingDMO" /\ calls # << >> =>
        /\ Answered("fetchMappings", "", "ok")
           /\ (\A e \in FetchedEntities : WantedPairs(e) = {})
           => /\ CallsOf("createMapping") = {}
              /\ pc \in {"loop", "done"}
              /\ Counted
              /\ outcomes[LogTask] = "Succeeded"
        /\ CallsOf("fetchMappings") # {} /\ CallsOf("createMapping") = {}
           /\ Counted /\ outcomes[LogTask] = "Failed"
           => Answered("fetchMappings", "", "HTTPError")

\* records were fetched, every pair of them is excluded or has no source field
C11_Witness ==
    /\ script = "cloneNmappingDMO"
    /\ calls # << >>
    /\ Answered("fetchMappings", "", "ok")
    /\ original_mappings = <<Rec("Account_DLO", <<PairCS, PairEB>>)>>
    /\ system_target_fields_to_skip = {N_System_c}
    /\ CallsOf("createMapping") = {}
    /\ outcomes[LogTask] = "Succeeded"

\* C12: in the field-addition loop a PATCH is sent only outside a dry run and
\* with at least one field; in a dry run, or with no field to add, none is sent
\* and the task is counted Succeeded.
C12_PatchOnlyWhenNeeded ==
    script = "updateDmoFields" /\ calls # << >> =>
        /\ \A i \in CallsOf("patchDefinition") :
             ~DRY_RUN /\ calls[i].payload.fields # << >>
        /\ Answered("fetchDefinition", "target", "ok")
           /\ (DRY_RUN \/ fields_to_add = << >>)
           => /\ CallsOf("patchDefinition") = {}
              /\ Counted
              /\ outcomes[LogTask] = "Succeeded"

\* a dry run with a field to add
C12_Witness ==
    /\ script = "updateDmoFields"
    /\ DRY_RUN
    /\ calls # << >>
    /\ Answered("fetchDefinition", "target", "ok")
    /\ fields_to_add # << >>
    /\ CallsOf("patchDefinition") = {}
    /\ outcomes[LogTask] = "Succeeded"

\* C15 as claimed: when the clone phase is enabled and createDefinition fails,
\* no fetchMappings and no createMapping is sent and the task is counted Failed.
C15_FailedCreateStopsTask ==
    /\ script = "cloneNmappingDMO"
    /\ RUN_CLONE_DMO
    /\ \E i \in CallsOf("createDefinition") : calls[i].result # "ok"
    => /\ CallsOf("fetchMappings") = {}
       /\ CallsOf("createMapping") = {}
       /\ Counted
       /\ outcomes[LogTask] = "Failed"

SystemNames(definition) ==
    {f.name : f \in {g \in Range(definition.fields) : g.creationType = "System"}}

\* C17: in the clone-and-map loop the exclusion set of a task is the set of the
\* names of the System fields of the definition fetched for that task, and no
\* createMapping payload of the task maps to one of them.
C17_ExclusionSetIsPerTask ==
    script = "cloneNmappingDMO" /\ calls # << >> /\ calls[1].result = "ok" =>
        /\ system_target_fields_to_skip = SystemNames(dmo_definition)
        /\ \A i \in CallsOf("createMapping") :
             \A pr \in Range(calls[i].payload.fieldMapping) :
                pr.targetFieldDeveloperName \notin SystemNames(dmo_definition)

\* the second task maps to a field that only the definition of another task
\* holds as a System field
C17_Witness ==
    /\ script = "cloneNmappingDMO"
    /\ calls # << >>
    /\ LogTask = 2
    /\ system_target_fields_to_skip = {N_ssot_Id_c}
    /\ \E i \in CallsOf("createMapping") :
         PairCS \in Range(calls[i].payload.fieldMapping)

\* C18: in the field-addition loop every field proposed comes from a source
\* field that passes the Lenient filter, carries that field's name as renamed,
\* and has a name no field of the fetched target has; the PATCH sends these
\* fields and no other.
C18_OnlyMissingFieldsProposed ==
    script = "updateDmoFields" /\ calls # << >>
    /\ Answered("fetchDefinition", "target", "ok") =>
        /\ \A p \in Range(fields_to_add) :
             /\ \E f \in Range(dmo_definition.fields) :
                  /\ ~(f.creationType = "System" /\ ~f.isPrimaryKey)
                  /\ NameRule(f.name, p.name)
                  /\ p.dataType = f.type
                  /\ p.isPrimaryKey = f.isPrimaryKey
             /\ p.name # EmptyStr
             /\ \A g \in Range(target_def.fields) : g.name # p.name
        /\ \A i \in CallsOf("patchDefinition") :
             calls[i].payload.fields = fields_to_add

\* the target already holds 'Revenue': only 'Id__c' is sent
C18_Witness ==
    /\ script = "updateDmoFields"
    /\ calls # << >>
    /\ Answered("fetchDefinition", "target", "ok")
    /\ dmo_definition.fields = <<F_Id, F_Revenue>>
    /\ \E i \in CallsOf("patchDefinition") :
         /\ Len(calls[i].payload.fields) = 1
         /\ calls[i].payload.fields[1].name = N_Id_c
    /\ \E g \in Range(target_def.fields) : g.name = N_Revenue

\* C19 as claimed: once the task is over, a createMapping that failed has not
\* kept any entity with pairs to map from getting its own createMapping, and
\* the task is counted Failed exactly when a createMapping failed.
C19_FailedMappingDoesNotStopPhase ==
    /\ script = "cloneNmappingDMO"
    /\ calls # << >>
    /\ CallsOf("createMapping") # {}
    /\ pc \in {"loop", "done", "raised"}
    => /\ \A e \in FetchedEntities :
            WantedPairs(e) # {} => \E i \in CallsOf("createMapping") : calls[i].target = e
       /\ Counted
       /\ outcomes[LogTask] =
             IF \E i \in CallsOf("createMapping") : calls[i].result # "ok"
             THEN "Failed" ELSE "Succeeded"

(***************************************************************************)
(* Further properties of the payloads                                      *)
(***************************************************************************)
OutboundFields ==
    IF ret.fn = "fields_to_add" THEN ret.value ELSE ret.value.fields

\* C13 as claimed: in the Strict payloads and in the Lenient list of new fields
\* alike, no outbound field has an empty name.
C13_NoUnnamedField ==
    ret.fn \in {"transform_payload_for_post", "create_new_dmo", "fields_to_add"} =>
        \A k \in 1..Len(OutboundFields) : OutboundFields[k].name # EmptyStr

\* C14 as claimed: each field of a Strict creation payload carries the name of
\* its source field as the field-name rule renames it, isDynamicLookup false
\* and the type of the source field as dataType.
C14_StrictRenamesByRule ==
    ret.fn \in {"transform_payload_for_post", "create_new_dmo"} =>
        \A k \in 1..Len(ret.value.fields) :
            /\ NameRule(KeptField(arg.source.fields, k).name, ret.value.fields[k].name)
            /\ ret.value.fields[k].isDynamicLookup = FALSE
            /\ ret.value.fields[k].dataType = KeptField(arg.source.fields, k).type

InputEntities ==
    {arg.original_mappings[k].sourceEntityDeveloperName :
        k \in 1..Len(arg.original_mappings)} \ {""}

\* the distinct pairs of the input records of entity e that are to be sent
InputPairs(e) ==
    {pr \in UNION {Range(arg.original_mappings[k].fieldMappings) :
                      k \in {n \in 1..Len(arg.original_mappings) :
                                arg.original_mappings[n].sourceEntityDeveloperName = e}} :
        /\ pr.sourceFieldDeveloperName # EmptyStr
        /\ pr.targetFieldDeveloperName \notin arg.skip}

PayloadsFor(e) ==
    {k \in 1..Len(ret.value) : ret.value[k].sourceEntityDeveloperName = e}

\* what C16 says of the pairs: for each entity the pairs sent are the pairs to
\* be sent, in one payload if there are any and in none otherwise, and nothing
\* is sent for anything but an entity of the input
PairsKept ==
    /\ EntitiesOf(ret.value) \subseteq InputEntities
    /\ \A e \in InputEntities :
         /\ PairsOf(ret.value, e) = InputPairs(e)
         /\ Cardinality(PayloadsFor(e)) = IF InputPairs(e) = {} THEN 0 ELSE 1

\* C16 as claimed: the pairs are kept, and each payload names as its target
\* entity the target object name the caller passed.
C16_Original ==
    Consolidated =>
        /\ PairsKept
        /\ \A k \in 1..Len(ret.value) :
             ret.value[k].targetEntityDeveloperName = arg.new_dmo_name_base

\* C16, amended: the pairs are kept, and each payload names as its target
\* entity the name the caller passed followed by '__dlm'.
C16_ConsolidationKeepsPairs ==
    Consolidated =>
        /\ PairsKept
        /\ \A k \in 1..Len(ret.value) :
             ret.value[k].targetEntityDeveloperName = arg.new_dmo_name_base \o DLM

\* two entities, one excluded pair, one pair shared by both
C16_Witness ==
    /\ ret.fn = "create_new_mappings"
    /\ arg.skip = {N_System_c}
    /\ arg.original_mappings = <<Rec("Account_DLO", <<PairAB, PairCS>>),
                                 Rec("Contact_DLO", <<PairCD, PairAB>>)>>
    /\ Len(ret.value) = 2
    /\ PairsOf(ret.value, "Account_DLO") = {PairAB}
    /\ PairsOf(ret.value, "Contact_DLO") = {PairAB, PairCD}

====
